---- MODULE Spec2Model ----
(***************************************************************************)
(* Model of build_all.py: the entry point runs build_release() and then    *)
(* create_package().  The state is the part of the filesystem the script   *)
(* touches (target/release, the staging directory PhotoSelector/, the      *)
(* archives in the working directory), the locals of create_package and    *)
(* the position of the single thread of control.                           *)
(*                                                                         *)
(* Environment: cargo is installed (spec section 6), platform.system()     *)
(* returns the same value at each call of one run, and no other process    *)
(* touches the files while the script runs (spec section 5).               *)
(***************************************************************************)
EXTENDS Integers, Sequences, FiniteSets, TLC

(* ------------------------------ bounds -------------------------------- *)
\* exit statuses of the build tool are 0..MaxExit (0 is success)
MaxExit == 1
\* number of unrelated files that may lie in the staging directory
MaxUnrelated == 1

(* ----------------------------- constants ------------------------------ *)
\* values of platform.system(); the last two take the fallback branch
Systems == {"Windows", "Darwin", "Linux", "FreeBSD"}

StagingDir == "PhotoSelector"
ReadmeName == "README.txt"
\* the literal written at lines 25-34
ReadmeText == "PhotoSelector usage text"

\* contents a file may have before the run
StaleBin == "stale-bin"
FreshBin == "fresh-bin"
OldBin == "old-bin"
StaleText == "stale-text"
UserData == "user-data"
\* what an interrupted write leaves behind
Truncated == "truncated"

VARIABLES
    pc,           \* next statement of the script
    system,       \* value of platform.system()
    returncode,   \* <<>> before the build, <<rc>> after subprocess.run returned
    target,       \* files of the build tree: path -> content
    stagingKind,  \* what the path PhotoSelector is: "absent", "file" or "dir"
    staging,      \* files of PhotoSelector/: name -> content
    archives,     \* archives in the working directory: name -> [format, tree]
    src,          \* local of create_package
    dst,          \* local of create_package
    err,          \* the exception that ended the run, "none" while there is none
    log,          \* the steps started so far, in order
    before        \* the staging directory and the archives as the run found them

vars == <<pc, system, returncode, target, stagingKind, staging, archives,
          src, dst, err, log, before>>

(* ------------------------------ helpers ------------------------------- *)
EmptyDir == [n \in {} |-> ""]

\* f with name n (over)written with content c
WriteFile(f, n, c) == [m \in (DOMAIN f) \cup {n} |-> IF m = n THEN c ELSE f[m]]

\* lines 14-19: the source path chosen for a platform
SrcFor(s) ==
    IF s = "Windows" THEN <<"target", "release", "photo-selector.exe">>
    ELSE <<"target", "release", "photo-selector">>

\* lines 14-19: the destination path chosen for a platform
DstFor(s) ==
    IF s = "Windows" THEN <<StagingDir, "PhotoSelector.exe">>
    ELSE <<StagingDir, "PhotoSelector">>

\* ArchiveBase with the Darwin branch lost
ArchiveBase_NoDarwin(s) ==
    IF s = "Windows" THEN "PhotoSelector-Windows"
    ELSE "PhotoSelector-Linux"

\* lines 37-42: the base name handed to make_archive
ArchiveBase(s) ==
    IF s = "Windows" THEN "PhotoSelector-Windows"
    ELSE IF s = "Darwin" THEN "PhotoSelector-Mac"
    ELSE "PhotoSelector-Linux"

\* ArchiveFormat with the fallback branch given the zip format too
ArchiveFormat_AllZip(s) == "zip"

\* lines 37-42: the format handed to make_archive
ArchiveFormat(s) ==
    IF s = "Windows" THEN "zip"
    ELSE IF s = "Darwin" THEN "zip"
    ELSE "gztar"

\* shutil.make_archive appends the extension of the format to the base name
Extension(fmt) == IF fmt = "zip" THEN ".zip" ELSE ".tar.gz"

ArchiveName(base, fmt) == base \o Extension(fmt)

(* --------------------------- initial states --------------------------- *)
SrcPaths == {SrcFor(s) : s \in Systems}
ExeNames == {DstFor(s)[2] : s \in Systems}
UnrelatedNames == {"extra" \o ToString(i) : i \in 1..MaxUnrelated}
StagingNames == ExeNames \cup {ReadmeName} \cup UnrelatedNames

OldContents(n) ==
    IF n \in ExeNames THEN {OldBin}
    ELSE IF n = ReadmeName THEN {StaleText, ReadmeText}
    ELSE {UserData}

InitTargets == UNION {[S -> {StaleBin}] : S \in SUBSET SrcPaths}

InitStagings ==
    {f \in UNION {[S -> {OldBin, StaleText, ReadmeText, UserData}] : S \in SUBSET StagingNames} :
        \A n \in DOMAIN f : f[n] \in OldContents(n)}

OldArchive(fmt) == [format |-> fmt, tree |-> WriteFile(EmptyDir, ReadmeName, StaleText)]

ArchiveNames == {ArchiveName(ArchiveBase(s), ArchiveFormat(s)) : s \in Systems}

FormatOfName(a) == CHOOSE fmt \in {"zip", "gztar"} :
                       \E s \in Systems : a = ArchiveName(ArchiveBase(s), fmt)

InitArchives ==
    {[a \in S |-> OldArchive(FormatOfName(a))] : S \in SUBSET ArchiveNames}

Init ==
    /\ pc = "build_release"
    /\ system \in Systems
    /\ returncode = <<>>
    /\ target \in InitTargets
    /\ stagingKind \in {"absent", "file", "dir"}
    /\ staging \in InitStagings
    /\ stagingKind # "dir" => staging = EmptyDir
    /\ archives \in InitArchives
    /\ src = <<>>
    /\ dst = <<>>
    /\ err = "none"
    /\ log = <<>>
    /\ before = [kind |-> stagingKind, staging |-> staging, archives |-> archives]

(* ------------------------------ actions ------------------------------- *)
Raise(e) == pc' = "failed" /\ err' = e

\* build_release with subprocess.run(..., check=True): a failed build raises
build_release_Checked ==
    /\ pc = "build_release"
    /\ log' = Append(log, "build")
    /\ \E rc \in 0..MaxExit :
        /\ returncode' = <<rc>>
        /\ IF rc = 0
           THEN /\ target' = [p \in (DOMAIN target) \cup {SrcFor(system)} |->
                                 IF p = SrcFor(system) THEN FreshBin ELSE target[p]]
                /\ pc' = "makedirs"
                /\ UNCHANGED err
           ELSE /\ Raise("CalledProcessError")
                /\ UNCHANGED target
    /\ UNCHANGED <<system, stagingKind, staging, archives, src, dst, before>>

\* line 7 (called at line 45): the status of the build tool is dropped
build_release ==
    /\ pc = "build_release"
    /\ log' = Append(log, "build")
    /\ \E rc \in 0..MaxExit :
        /\ returncode' = <<rc>>
        /\ target' = IF rc = 0
                     THEN [p \in (DOMAIN target) \cup {SrcFor(system)} |->
                              IF p = SrcFor(system) THEN FreshBin ELSE target[p]]
                     ELSE target
    /\ pc' = "makedirs"
    /\ UNCHANGED <<system, stagingKind, staging, archives, src, dst, err, before>>

\* makedirs without exist_ok=True: an existing directory raises
makedirs_NoExistOk ==
    /\ pc = "makedirs"
    /\ log' = Append(log, "makedirs")
    /\ \/ /\ stagingKind = "absent"
          /\ stagingKind' = "dir"
          /\ pc' = "select"
          /\ UNCHANGED err
       \/ /\ stagingKind = "absent"
          /\ Raise("OSError")
          /\ UNCHANGED stagingKind
       \/ /\ stagingKind \in {"file", "dir"}
          /\ Raise("FileExistsError")
          /\ UNCHANGED stagingKind
    /\ UNCHANGED <<system, returncode, target, staging, archives, src, dst, before>>

\* makedirs left out: the directory is never created
makedirs_NoCreate ==
    /\ pc = "makedirs"
    /\ log' = Append(log, "makedirs")
    /\ pc' = "select"
    /\ UNCHANGED <<system, returncode, target, stagingKind, staging, archives,
                   src, dst, err, before>>

\* line 11: os.makedirs('PhotoSelector', exist_ok=True)
makedirs ==
    /\ pc = "makedirs"
    /\ log' = Append(log, "makedirs")
    /\ \/ /\ stagingKind = "dir"
          /\ pc' = "select"
          /\ UNCHANGED <<stagingKind, err>>
       \/ /\ stagingKind = "absent"
          /\ stagingKind' = "dir"
          /\ pc' = "select"
          /\ UNCHANGED err
       \/ /\ stagingKind = "absent"
          /\ Raise("OSError")
          /\ UNCHANGED stagingKind
       \/ /\ stagingKind = "file"
          /\ Raise("FileExistsError")
          /\ UNCHANGED stagingKind
    /\ UNCHANGED <<system, returncode, target, staging, archives, src, dst, before>>

\* lines 14-19
select ==
    /\ pc = "select"
    /\ src' = SrcFor(system)
    /\ dst' = DstFor(system)
    /\ pc' = "copy2"
    /\ UNCHANGED <<system, returncode, target, stagingKind, staging, archives,
                   err, log, before>>

\* copy2 guarded by os.path.exists(src): a missing binary is skipped silently
copy2_SkipMissing ==
    /\ pc = "copy2"
    /\ log' = Append(log, "copy")
    /\ \/ /\ src \notin DOMAIN target
          /\ pc' = "write_readme"
          /\ UNCHANGED <<staging, err>>
       \/ /\ src \in DOMAIN target
          /\ stagingKind # "dir" \/ dst[1] # StagingDir
          /\ Raise("FileNotFoundError")
          /\ UNCHANGED staging
       \/ /\ src \in DOMAIN target
          /\ stagingKind = "dir" /\ dst[1] = StagingDir
          /\ \/ /\ staging' = WriteFile(staging, dst[2], target[src])
                /\ pc' = "write_readme"
                /\ UNCHANGED err
             \/ /\ Raise("OSError")
                /\ \/ UNCHANGED staging
                   \/ staging' = WriteFile(staging, dst[2], Truncated)
    /\ UNCHANGED <<system, returncode, target, stagingKind, archives, src, dst, before>>

\* a copy that opens dst for writing before it opens src
copy2_TruncateFirst ==
    /\ pc = "copy2"
    /\ log' = Append(log, "copy")
    /\ \/ /\ src \notin DOMAIN target
          /\ Raise("FileNotFoundError")
          /\ staging' = IF stagingKind = "dir" /\ dst[1] = StagingDir
                        THEN WriteFile(staging, dst[2], Truncated)
                        ELSE staging
       \/ /\ src \in DOMAIN target
          /\ stagingKind # "dir" \/ dst[1] # StagingDir
          /\ Raise("FileNotFoundError")
          /\ UNCHANGED staging
       \/ /\ src \in DOMAIN target
          /\ stagingKind = "dir" /\ dst[1] = StagingDir
          /\ \/ /\ staging' = WriteFile(staging, dst[2], target[src])
                /\ pc' = "write_readme"
                /\ UNCHANGED err
             \/ /\ Raise("OSError")
                /\ \/ UNCHANGED staging
                   \/ staging' = WriteFile(staging, dst[2], Truncated)
    /\ UNCHANGED <<system, returncode, target, stagingKind, archives, src, dst, before>>

\* line 21: shutil.copy2(src, dst) opens src before it opens dst
copy2 ==
    /\ pc = "copy2"
    /\ log' = Append(log, "copy")
    /\ \/ /\ src \notin DOMAIN target
          /\ Raise("FileNotFoundError")
          /\ UNCHANGED staging
       \/ /\ src \in DOMAIN target
          /\ stagingKind # "dir" \/ dst[1] # StagingDir
          /\ Raise("FileNotFoundError")
          /\ UNCHANGED staging
       \/ /\ src \in DOMAIN target
          /\ stagingKind = "dir" /\ dst[1] = StagingDir
          /\ \/ /\ staging' = WriteFile(staging, dst[2], target[src])
                /\ pc' = "write_readme"
                /\ UNCHANGED err
             \/ /\ Raise("OSError")
                /\ \/ UNCHANGED staging
                   \/ staging' = WriteFile(staging, dst[2], Truncated)
    /\ UNCHANGED <<system, returncode, target, stagingKind, archives, src, dst, before>>

\* write_readme opening the file in mode 'a': an existing README is kept
write_readme_Append ==
    /\ pc = "write_readme"
    /\ log' = Append(log, "readme")
    /\ \/ /\ stagingKind # "dir"
          /\ Raise("FileNotFoundError")
          /\ UNCHANGED staging
       \/ /\ stagingKind = "dir"
          /\ \/ /\ staging' = IF ReadmeName \in DOMAIN staging
                              THEN WriteFile(staging, ReadmeName, "appended-text")
                              ELSE WriteFile(staging, ReadmeName, ReadmeText)
                /\ pc' = "make_archive"
                /\ UNCHANGED err
             \/ /\ Raise("OSError")
                /\ UNCHANGED staging
    /\ UNCHANGED <<system, returncode, target, stagingKind, archives, src, dst, before>>

\* write_readme inside try/except: a failed write is swallowed
write_readme_Swallow ==
    /\ pc = "write_readme"
    /\ log' = Append(log, "readme")
    /\ stagingKind = "dir"
    /\ \/ staging' = WriteFile(staging, ReadmeName, ReadmeText)
       \/ UNCHANGED staging
       \/ staging' = WriteFile(staging, ReadmeName, Truncated)
    /\ pc' = "make_archive"
    /\ UNCHANGED <<system, returncode, target, stagingKind, archives, src, dst,
                   err, before>>

\* lines 24-34: open(..., 'w') truncates, then the literal is written
write_readme ==
    /\ pc = "write_readme"
    /\ log' = Append(log, "readme")
    /\ \/ /\ stagingKind # "dir"
          /\ Raise("FileNotFoundError")
          /\ UNCHANGED staging
       \/ /\ stagingKind = "dir"
          /\ \/ /\ staging' = WriteFile(staging, ReadmeName, ReadmeText)
                /\ pc' = "make_archive"
                /\ UNCHANGED err
             \/ /\ Raise("OSError")
                /\ \/ UNCHANGED staging
                   \/ staging' = WriteFile(staging, ReadmeName, Truncated)
    /\ UNCHANGED <<system, returncode, target, stagingKind, archives, src, dst, before>>

\* lines 37-42: shutil.make_archive(base, format, 'PhotoSelector')
make_archive ==
    /\ pc = "make_archive"
    /\ log' = Append(log, "archive")
    /\ LET fmt == ArchiveFormat(system)
           name == ArchiveName(ArchiveBase(system), fmt)
       IN \/ /\ stagingKind # "dir"
             /\ Raise("FileNotFoundError")
             /\ UNCHANGED archives
          \/ /\ stagingKind = "dir"
             /\ \/ /\ archives' = WriteFile(archives, name, [format |-> fmt, tree |-> staging])
                   /\ pc' = "done"
                   /\ UNCHANGED err
                \/ /\ Raise("OSError")
                   /\ \/ UNCHANGED archives
                      \/ archives' = WriteFile(archives, name, [format |-> fmt, tree |-> EmptyDir])
    /\ UNCHANGED <<system, returncode, target, stagingKind, staging, src, dst, before>>

Next ==
    \/ build_release
    \/ makedirs
    \/ select
    \/ copy2
    \/ write_readme
    \/ make_archive

Spec == Init /\ [][Next]_vars

\* the script is one synchronous thread: it runs until it returns or raises
FairSpec == Spec /\ WF_vars(Next)

(* ------------------------- vocabulary of the claims ------------------- *)
Steps == <<"build", "makedirs", "copy", "readme", "archive">>

Started(step) == \E i \in 1..Len(log) : log[i] = step

\* the run ended with an exception raised by the given step
FailedAt(step) == pc = "failed" /\ Len(log) > 0 /\ log[Len(log)] = step

BuildFailed == returncode # <<>> /\ returncode[1] # 0
BuildSucceeded == returncode = <<0>>

\* the names the specification gives, written out per platform
ExpectedSrc ==
    IF system = "Windows" THEN <<"target", "release", "photo-selector.exe">>
    ELSE <<"target", "release", "photo-selector">>
ExpectedExe == IF system = "Windows" THEN "PhotoSelector.exe" ELSE "PhotoSelector"
ExpectedArchive ==
    IF system = "Windows" THEN "PhotoSelector-Windows.zip"
    ELSE IF system = "Darwin" THEN "PhotoSelector-Mac.zip"
    ELSE "PhotoSelector-Linux.tar.gz"
ExpectedFormat == IF system \in {"Windows", "Darwin"} THEN "zip" ELSE "gztar"

MissingBinary == ExpectedSrc \notin DOMAIN target

\* the archives this run created or rewrote
Produced == {a \in DOMAIN archives :
                a \notin DOMAIN before.archives \/ archives[a] # before.archives[a]}

\* the two files create_package writes
Packaged == {ExpectedExe, ReadmeName}

(* -------------------------------- claims ------------------------------ *)

\* C1: once the build tool has exited with a non-zero status, create_package
\* never starts (no makedirs, copy, README write or archive).
C1_StopsBeforePackaging == ~(BuildFailed /\ Started("makedirs"))

\* C2: when the source binary is missing as create_package runs, the copy
\* raises, the run ends in failure, and the run produces no archive.
C2_MissingBinaryNoArchive ==
    /\ (Started("makedirs") /\ MissingBinary) =>
           /\ pc \notin {"write_readme", "make_archive", "done"}
           /\ ~Started("archive")
           /\ Produced = {}
    /\ (Started("copy") /\ MissingBinary) =>
           /\ pc = "failed"
           /\ err = "FileNotFoundError"

C2_Witness == FailedAt("copy") /\ MissingBinary /\ BuildFailed

\* C3: the names chosen follow the platform: the source and staged executable
\* once selected, the staged copy once made, and the archive once written, and
\* the archive holds the executable named for the same platform.
C3_PlatformNames ==
    /\ pc \in {"copy2", "write_readme", "make_archive", "done"} =>
           /\ src = ExpectedSrc
           /\ dst = <<"PhotoSelector", ExpectedExe>>
    /\ pc \in {"write_readme", "make_archive", "done"} =>
           /\ ExpectedExe \in DOMAIN staging
           /\ staging[ExpectedExe] = target[ExpectedSrc]
    /\ Produced \subseteq {ExpectedArchive}
    /\ pc = "done" =>
           /\ Produced = {ExpectedArchive}
           /\ ExpectedExe \in DOMAIN archives[ExpectedArchive].tree

C3_Witness ==
    /\ pc = "done"
    /\ system = "Darwin"
    /\ "PhotoSelector-Linux.tar.gz" \in DOMAIN archives
    /\ "PhotoSelector.exe" \in DOMAIN staging

\* C4 as stated: after a successful build and a completed create_package the
\* staging directory holds the executable and README.txt and nothing else.
C4_ExactlyTwoFiles ==
    (pc = "done" /\ BuildSucceeded) =>
        /\ DOMAIN staging = Packaged
        /\ staging[ReadmeName] = ReadmeText

\* C4 amended: after a successful build and a completed create_package the
\* staging directory holds the freshly built executable, README.txt with the
\* fixed text, and besides them exactly the files it held before, unchanged;
\* it holds the two files alone when it held no other file before the run.
C4_TwoFilesPlusEarlier ==
    (pc = "done" /\ BuildSucceeded) =>
        /\ DOMAIN staging = Packaged \cup DOMAIN before.staging
        /\ staging[ExpectedExe] = FreshBin
        /\ staging[ReadmeName] = ReadmeText
        /\ \A n \in (DOMAIN before.staging) \ Packaged : staging[n] = before.staging[n]
        /\ (DOMAIN before.staging \subseteq Packaged => DOMAIN staging = Packaged)

C4_Witness ==
    /\ pc = "done"
    /\ BuildSucceeded
    /\ ReadmeName \in DOMAIN before.staging
    /\ before.staging[ReadmeName] = StaleText
    /\ (DOMAIN before.staging) \ Packaged # {}

\* C5: whenever make_archive is about to run or has run, the staging directory
\* exists and holds the copy of the platform's binary and README.txt with the
\* fixed text; no archive is written before that.
C5_ArchiveAfterStaging ==
    /\ (pc = "make_archive" \/ Started("archive")) =>
           /\ stagingKind = "dir"
           /\ dst = <<StagingDir, ExpectedExe>>
           /\ ExpectedExe \in DOMAIN staging
           /\ staging[ExpectedExe] = target[ExpectedSrc]
           /\ ReadmeName \in DOMAIN staging
           /\ staging[ReadmeName] = ReadmeText
    /\ Produced # {} => Started("archive")
    /\ \A a \in Produced :
           archives[a].tree # EmptyDir => archives[a].tree = staging

C5_Witness ==
    /\ pc = "done"
    /\ before.kind = "absent"
    /\ Produced # {}

C7_AlwaysProduces ==
    (pc = "done" \/ (FailedAt("copy") /\ err = "FileNotFoundError")) =>
        /\ ExpectedArchive \in Produced
        /\ archives[ExpectedArchive].format = ExpectedFormat

\* C7 amended: every archive create_package produces is a zip container on
\* Windows and Darwin and a gzip-compressed tar container on any other
\* platform, whatever the binary (fresh or stale); with the binary absent it
\* produces no archive.
C7_FormatByPlatform ==
    /\ \A a \in Produced : archives[a].format = ExpectedFormat
    /\ pc = "done" =>
           /\ ExpectedArchive \in Produced
           /\ archives[ExpectedArchive].format = ExpectedFormat
    /\ (Started("makedirs") /\ MissingBinary) => Produced = {}

C7_Witness ==
    /\ pc = "done"
    /\ system = "FreeBSD"
    /\ BuildFailed
    /\ archives[ExpectedArchive].format = "gztar"

\* C8: the steps run in the order build, makedirs, copy, README, archive, each
\* once and none skipped; a run that has returned has done them all; and a run
\* reaches the archive step unless a file operation raised, whatever the
\* status of the build.
IsPrefix(s, t) == Len(s) <= Len(t) /\ \A i \in 1..Len(s) : s[i] = t[i]

FileOperationFailed ==
    \E step \in {"makedirs", "copy", "readme", "archive"} : FailedAt(step)

C9_DirBeforeFiles ==
    /\ pc \in {"select", "copy2", "write_readme", "make_archive", "done"} =>
           stagingKind = "dir"
    /\ (Started("copy") \/ Started("readme")) => stagingKind = "dir"
    /\ staging # EmptyDir => stagingKind = "dir"

C9_Witness == pc = "write_readme" /\ before.kind = "absent" /\ staging # EmptyDir

\* C10: a run whose copy fails because the source binary is absent has left
\* the files of the staging directory and the archives as it found them; the
\* one change is that the staging directory now exists.
C10_FailedCopyFrame ==
    (FailedAt("copy") /\ MissingBinary) =>
        /\ staging = before.staging
        /\ archives = before.archives
        /\ stagingKind = "dir"
        /\ before.kind \in {"absent", "dir"}
        /\ (before.kind = "absent" => staging = EmptyDir)

C10_Witness ==
    /\ FailedAt("copy")
    /\ MissingBinary
    /\ ReadmeName \in DOMAIN staging
    /\ ExpectedExe \in DOMAIN staging
    /\ ExpectedArchive \in DOMAIN archives

====
